---- MODULE Spec2Model ----
(***************************************************************************)
(* SimpleExecutor of fuck-rust-day-by-day/src/_2026_02_01_fuck.rs: a       *)
(* single ready queue of Arc<Task>, a hand-built Waker over a raw pointer  *)
(* (clone / wake / wake_by_ref / drop), spawn and the run loop.            *)
(*                                                                         *)
(* An Arc<Task> is modelled by the strong count of the Task it points to;  *)
(* Arc::into_raw, Arc::from_raw and mem::forget move a share between an    *)
(* Arc and a raw pointer and leave the count alone, Arc::clone adds one,   *)
(* dropping an Arc takes one away and runs the Task's destructor when the  *)
(* count reaches zero.                                                     *)
(***************************************************************************)
EXTENDS Integers, Sequences, FiniteSets, TLC

\* ------------------------------------------------------------------ bounds
MaxTasks == 2      \* Tasks spawned in one behaviour
MaxCount == 3      \* largest CountDown::new(count, _)
MaxWakes == 2      \* uses (wake, wake_by_ref, clone) one scripted computation makes of its Wakers

\* polls of one Task that the model follows: enough for every CountDown and
\* every scripted computation to finish
MaxAdvance == IF MaxCount > MaxWakes THEN MaxCount + 1 ELSE MaxWakes + 1

TaskIds == 1..MaxTasks
NoTask == 0

\* two SimpleExecutors, and two threads that call run()
Executors == {"e1", "e2"}
Workers == {"w1", "w2"}

VARIABLES
    queue,       \* TaskQueue.queue: the VecDeque<Arc<Task>>, head first
    future,      \* Task.future: the computation each Task owns
    arc,         \* per Task: strong count of its Arc, and runs of its destructor
    kept,        \* per Task: live Wakers held outside run() (clones handed out)
    pc,          \* where the caller of run() is
    task,        \* run()'s local `task`, NoTask outside the loop body
    waker,       \* run()'s local `waker` is live (it is bound to `task`)
    nTasks,      \* Tasks created by spawn so far
    adv,         \* per Task: calls of poll
    done,        \* per Task: polls that returned Poll::Ready
    last,        \* per Task: what its latest poll returned
    stepWakes,   \* wake invocations made inside the poll in progress
    lapsed,      \* per Task: some poll returned Pending without any wake
    cloned,      \* per Task: Waker clones handed out so far
    pushedHist,  \* every argument of TaskQueue::push, in call order
    poppedHist,  \* every Some(_) result of TaskQueue::pop, in call order
    executor,    \* the SimpleExecutor has not been dropped
    qlock,       \* who holds the Mutex of TaskQueue.queue: "free" or "run"
    \* several executors, and several threads that call run() (section
    \* "several executors and threads" below)
    queues,      \* per SimpleExecutor: its TaskQueue.queue, head first
    qlocks,      \* per SimpleExecutor: the thread that holds the Mutex of its deque
    home,        \* per Task: Task.queue, the TaskQueue of the executor that spawned it
    comp,        \* per Task: the uses its computation still makes of its Wakers
    flock,       \* per Task: the thread that holds the Mutex of Task.future
    handles,     \* per Task: live Wakers held by other threads
    wpc,         \* per thread: where it is in run()
    wexec,       \* per thread: the SimpleExecutor whose run() it called
    wtask,       \* per thread: run()'s local `task`
    \* repeated calls of run() (section "run() called again" below)
    again        \* run() has been called after it had returned

execvars == <<queue, future, arc, kept, pc, task, waker, nTasks, adv, done,
              last, stepWakes, lapsed, cloned, pushedHist, poppedHist,
              executor, qlock, again>>

\* `again` is listed in both groups: only RunAgain changes it
sysvars == <<queues, qlocks, home, comp, flock, handles, wpc, wexec, wtask,
             again>>

vars == <<execvars, sysvars>>

Spawned == 1..nTasks

\* ------------------------------------------------------------------ Arc<Task>
NoArc == [strong |-> 0, dropped |-> 0]

\* Arc::new(Task { .. }): one share, not destroyed
ArcNew(a, t) == [a EXCEPT ![t] = [strong |-> 1, dropped |-> 0]]

\* Arc::clone: one more share
ArcClone(a, t) == [a EXCEPT ![t].strong = @ + 1]

\* drop of an Arc<Task>: one share less; the release that leaves none (or that
\* finds none left) runs the Task's destructor
ArcDrop(a, t) ==
    [a EXCEPT ![t] = [strong |-> IF @.strong > 0 THEN @.strong - 1 ELSE 0,
                      dropped |-> IF @.strong <= 1 THEN @.dropped + 1 ELSE @.dropped]]

\* ------------------------------------------------------------------ TaskQueue
\* push that skips a Task already in the deque
push_dedup(q, t) == IF \E i \in 1..Len(q) : q[i] = t THEN q ELSE Append(q, t)

\* push as push_front: new entries jump the queue
push_front(q, t) == <<t>> \o q

\* push_back under the lock
push(q, t) == Append(q, t)

\* pop that also removes the other entries of the Task it returns
pop_dedup(q) ==
    IF q = <<>> THEN [res |-> NoTask, queue |-> q]
    ELSE [res |-> Head(q),
          queue |-> LET Other(x) == x # Head(q) IN SelectSeq(Tail(q), Other)]

\* pop as pop_back(): the newest entry first
pop_back(q) ==
    IF q = <<>> THEN [res |-> NoTask, queue |-> q]
    ELSE [res |-> q[Len(q)], queue |-> SubSeq(q, 1, Len(q) - 1)]

\* pop as front(): the head is returned and stays in the deque
pop_peek(q) ==
    IF q = <<>> THEN [res |-> NoTask, queue |-> q]
    ELSE [res |-> Head(q), queue |-> q]

\* pop as swap_remove_back(0): the head is returned and the newest entry
\* takes its place
pop_swap_remove(q) ==
    IF q = <<>> THEN [res |-> NoTask, queue |-> q]
    ELSE [res |-> Head(q),
          queue |-> IF Len(q) <= 2 THEN Tail(q)
                    ELSE <<q[Len(q)]>> \o SubSeq(q, 2, Len(q) - 1)]

\* pop_front under the lock: None on an empty deque
pop(q) ==
    IF q = <<>> THEN [res |-> NoTask, queue |-> q]
    ELSE [res |-> Head(q), queue |-> Tail(q)]

\* ------------------------------------------------------------------ VTABLE
\* clone_fn that hands out the same pointer without arc.clone()
clone_fn_nocount(a, t) == a

\* clone_fn: from_raw, arc.clone(), forget(arc), into_raw(cloned)
clone_fn(a, t) == ArcClone(a, t)

\* wake_fn that pushes two clones
wake_fn_twice(q, a, t) == [queue |-> push(push(q, t), t), arc |-> ArcClone(a, t)]

\* wake_fn that forgets the local arc as wake_by_ref_fn does
wake_fn_forget(q, a, t) == [queue |-> push(q, t), arc |-> ArcClone(a, t)]

\* wake_fn: from_raw takes the Waker's share, a clone goes into the queue,
\* the local arc is dropped at the end of the function
wake_fn(q, a, t) == [queue |-> push(q, t), arc |-> ArcDrop(ArcClone(a, t), t)]

\* wake_by_ref_fn without the forget: the local arc is dropped as in wake_fn
wake_by_ref_fn_noforget(q, a, t) ==
    [queue |-> push(q, t), arc |-> ArcDrop(ArcClone(a, t), t)]

\* wake_by_ref_fn that never reaches the queue
wake_by_ref_fn_nopush(q, a, t) == [queue |-> q, arc |-> a]

\* wake_by_ref_fn: from_raw, a clone goes into the queue, forget(arc)
wake_by_ref_fn(q, a, t) == [queue |-> push(q, t), arc |-> ArcClone(a, t)]

\* drop_fn that forgets the Arc it rebuilt instead of dropping it
drop_fn_forget(a, t) == a

\* drop_fn: from_raw, and the Arc is dropped at the end of the function
drop_fn(a, t) == ArcDrop(a, t)

\* create_waker(task): the Waker is built from run()'s own Arc, without a clone
create_waker_noclone(a, t) == a

\* create_waker(task.clone()): the clone's share goes into the raw pointer
create_waker(a, t) == ArcClone(a, t)

\* ------------------------------------------------------------------ futures
\* CountDown::new(count, name)
CountDownNew(n) == [kind |-> "countdown", count |-> n, remaining |-> n, budget |-> 0]

\* a computation that wakes itself on every poll and is never ready
ForeverNew == [kind |-> "forever", count |-> 0, remaining |-> 0, budget |-> 0]

\* a computation that chooses, poll by poll, how often it wakes itself, whether
\* it hands out a clone of its Waker and what it returns; b bounds the wake,
\* wake_by_ref and clone calls made on its Wakers in its whole life
ScriptNew(b) == [kind |-> "script", count |-> 0, remaining |-> 0, budget |-> b]

NoFuture == [kind |-> "none", count |-> 0, remaining |-> 0, budget |-> 0]

Futures ==
    {CountDownNew(n) : n \in 0..MaxCount} \cup {ForeverNew}
        \cup {ScriptNew(b) : b \in 0..MaxWakes}

\* ------------------------------------------------------------------ Init
Init ==
    /\ queue = <<>>
    /\ future = [t \in TaskIds |-> NoFuture]
    /\ arc = [t \in TaskIds |-> NoArc]
    /\ kept = [t \in TaskIds |-> 0]
    /\ pc = "idle"
    /\ task = NoTask
    /\ waker = FALSE
    /\ nTasks = 0
    /\ adv = [t \in TaskIds |-> 0]
    /\ done = [t \in TaskIds |-> 0]
    /\ last = [t \in TaskIds |-> "none"]
    /\ stepWakes = 0
    /\ lapsed = [t \in TaskIds |-> FALSE]
    /\ cloned = [t \in TaskIds |-> 0]
    /\ pushedHist = <<>>
    /\ poppedHist = <<>>
    /\ executor = TRUE
    /\ qlock = "free"
    /\ queues = [e \in Executors |-> <<>>]
    /\ qlocks = [e \in Executors |-> "free"]
    /\ home = [t \in TaskIds |-> "none"]
    /\ comp = [t \in TaskIds |-> 0]
    /\ flock = [t \in TaskIds |-> "free"]
    /\ handles = [t \in TaskIds |-> 0]
    /\ wpc = [w \in Workers |-> "idle"]
    /\ wexec = [w \in Workers |-> "e1"]
    /\ wtask = [w \in Workers |-> NoTask]
    /\ again = FALSE

\* ------------------------------------------------------------------ spawn
\* a spawn that polls the new computation once before it queues the Task
spawn_poll(f) ==
    /\ pc = "idle"
    /\ executor
    /\ qlock = "free"
    /\ nTasks < MaxTasks
    /\ f.kind # "countdown" => \A u \in Spawned : future[u].kind = "countdown"
    /\ LET t == nTasks + 1 IN
        /\ nTasks' = t
        /\ future' = [future EXCEPT ![t] = f]
        /\ arc' = ArcNew(arc, t)
        /\ queue' = push(queue, t)
        /\ pushedHist' = Append(pushedHist, t)
        /\ adv' = [adv EXCEPT ![t] = 1]
    /\ pc' = "idle"
    /\ UNCHANGED <<kept, task, waker, done, last, stepWakes, lapsed,
                   cloned, poppedHist, executor, qlock>>
    /\ UNCHANGED sysvars

\* SimpleExecutor::spawn: Arc::new(Task { future, queue }) and queue.push(task).
\* The caller spawns before it calls run(), as the tests do; at most one of
\* the Tasks is not a CountDown.
spawn(f) ==
    /\ pc = "idle"
    /\ executor
    /\ qlock = "free"
    /\ nTasks < MaxTasks
    /\ f.kind # "countdown" => \A u \in Spawned : future[u].kind = "countdown"
    /\ LET t == nTasks + 1 IN
        /\ nTasks' = t
        /\ future' = [future EXCEPT ![t] = f]
        /\ arc' = ArcNew(arc, t)
        /\ queue' = push(queue, t)
        /\ pushedHist' = Append(pushedHist, t)
    /\ pc' = "idle"
    /\ UNCHANGED <<kept, task, waker, adv, done, last, stepWakes, lapsed,
                   cloned, poppedHist, executor, qlock>>
    /\ UNCHANGED sysvars

Spawn == \E f \in Futures : spawn(f)

\* ------------------------------------------------------------------ run
\* the caller enters run()
RunCall ==
    /\ pc \in {"idle", "returned"}
    /\ executor
    /\ pc' = "loop"
    /\ UNCHANGED <<queue, future, arc, kept, task, waker, nTasks, adv, done, last,
                   stepWakes, lapsed, cloned, pushedHist, poppedHist,
                   executor, qlock>>
    /\ UNCHANGED sysvars

\* TaskQueue::pop, first half: self.queue.lock().unwrap() at the loop test
RunLock ==
    /\ pc = "loop"
    /\ qlock = "free"
    /\ qlock' = "run"
    /\ UNCHANGED <<queue, future, arc, kept, pc, task, waker, nTasks, adv, done,
                   last, stepWakes, lapsed, cloned, pushedHist, poppedHist, executor>>
    /\ UNCHANGED sysvars

\* a loop test that locks the deque inline, `while let Some(task) =
\* self.queue.queue.lock().unwrap().pop_front()`: the guard is a temporary of
\* the loop's scrutinee and lives until the end of the iteration
RunPop_holdlock ==
    /\ pc = "loop"
    /\ qlock = "run"
    /\ LET r == pop(queue) IN
        IF r.res = NoTask
        THEN /\ pc' = "returned"
             /\ qlock' = "free"
             /\ UNCHANGED <<queue, arc, task, waker, adv, stepWakes, poppedHist>>
        ELSE /\ adv[r.res] < MaxAdvance
             /\ qlock' = "run"
             /\ queue' = r.queue
             /\ task' = r.res
             /\ arc' = create_waker(arc, r.res)
             /\ waker' = TRUE
             /\ adv' = [adv EXCEPT ![r.res] = @ + 1]
             /\ stepWakes' = 0
             /\ poppedHist' = Append(poppedHist, r.res)
             /\ pc' = "polling"
    /\ UNCHANGED <<future, kept, nTasks, done, last, lapsed, cloned, pushedHist,
                   executor>>
    /\ UNCHANGED sysvars

\* run() that parks on an empty queue instead of returning
RunPop_park ==
    /\ pc = "loop"
    /\ qlock = "run"
    /\ qlock' = "free"
    /\ LET r == pop(queue) IN
        IF r.res = NoTask
        THEN /\ pc' = "parked"
             /\ UNCHANGED <<queue, arc, task, waker, adv, stepWakes, poppedHist>>
        ELSE /\ adv[r.res] < MaxAdvance
             /\ queue' = r.queue
             /\ task' = r.res
             /\ arc' = create_waker(arc, r.res)
             /\ waker' = TRUE
             /\ adv' = [adv EXCEPT ![r.res] = @ + 1]
             /\ stepWakes' = 0
             /\ poppedHist' = Append(poppedHist, r.res)
             /\ pc' = "polling"
    /\ UNCHANGED <<future, kept, nTasks, done, last, lapsed, cloned, pushedHist, executor>>
    /\ UNCHANGED sysvars

\* `while let Some(task) = self.queue.pop()`: on None run() returns; on Some
\* the body builds the Waker from task.clone(), locks task.future and polls
RunPop ==
    /\ pc = "loop"
    /\ qlock = "run"
    /\ qlock' = "free"
    /\ LET r == pop(queue) IN
        IF r.res = NoTask
        THEN /\ pc' = "returned"
             /\ UNCHANGED <<queue, arc, task, waker, adv, stepWakes, poppedHist>>
        ELSE /\ adv[r.res] < MaxAdvance
             /\ queue' = r.queue
             /\ task' = r.res
             /\ arc' = create_waker(arc, r.res)
             /\ waker' = TRUE
             /\ adv' = [adv EXCEPT ![r.res] = @ + 1]
             /\ stepWakes' = 0
             /\ poppedHist' = Append(poppedHist, r.res)
             /\ pc' = "polling"
    /\ UNCHANGED <<future, kept, nTasks, done, last, lapsed, cloned, pushedHist, executor>>
    /\ UNCHANGED sysvars

\* what poll's return leaves behind, for the Task t being polled
Returned(t, outcome) ==
    /\ last' = [last EXCEPT ![t] = outcome]
    /\ done' = [done EXCEPT ![t] = IF outcome = "Ready" THEN @ + 1 ELSE @]
    /\ pc' = "polled"

\* cx.waker().wake_by_ref() from inside the poll of Task t
WakeByRefInPoll(t) ==
    LET w == wake_by_ref_fn(queue, arc, t) IN
        /\ qlock = "free"
        /\ queue' = w.queue
        /\ arc' = w.arc
        /\ pushedHist' = Append(pushedHist, t)
        /\ stepWakes' = stepWakes + 1

\* CountDown::poll without the test for zero: it decrements whatever is left
\* (on the u32 a panic in a debug build, 2^32 - 1 in a release build)
CountDown_poll_nozero(r) ==
    [remaining |-> r - 1, wakes |-> 1, result |-> "Pending"]

\* CountDown::poll on a CountDown with r left: what is left afterwards, the
\* calls of cx.waker().wake_by_ref() it makes and what it returns
CountDown_poll(r) ==
    IF r = 0
    THEN [remaining |-> r, wakes |-> 0, result |-> "Ready"]
    ELSE [remaining |-> r - 1, wakes |-> 1, result |-> "Pending"]

\* CountDown::poll that is ready one count early (remaining <= 1)
CountDownPoll_offbyone ==
    /\ pc = "polling"
    /\ future[task].kind = "countdown"
    /\ IF future[task].remaining <= 1
       THEN /\ Returned(task, "Ready")
            /\ UNCHANGED <<queue, arc, future, pushedHist, stepWakes, lapsed>>
       ELSE /\ future' = [future EXCEPT ![task].remaining = @ - 1]
            /\ WakeByRefInPoll(task)
            /\ Returned(task, "Pending")
            /\ UNCHANGED lapsed
    /\ UNCHANGED <<kept, task, waker, nTasks, adv, cloned, poppedHist,
                   executor, qlock>>
    /\ UNCHANGED sysvars

\* run() polls a Task whose computation is a CountDown
CountDownPoll ==
    /\ pc = "polling"
    /\ future[task].kind = "countdown"
    /\ LET p == CountDown_poll(future[task].remaining) IN
        /\ future' = [future EXCEPT ![task].remaining = p.remaining]
        /\ IF p.wakes = 1
           THEN WakeByRefInPoll(task)
           ELSE UNCHANGED <<queue, arc, pushedHist, stepWakes>>
        /\ Returned(task, p.result)
    /\ UNCHANGED lapsed
    /\ UNCHANGED <<kept, task, waker, nTasks, adv, cloned, poppedHist,
                   executor, qlock>>
    /\ UNCHANGED sysvars

\* poll of a computation that always wakes itself and returns Pending
ForeverPoll ==
    /\ pc = "polling"
    /\ future[task].kind = "forever"
    /\ WakeByRefInPoll(task)
    /\ Returned(task, "Pending")
    /\ UNCHANGED <<future, kept, task, waker, nTasks, adv, lapsed, cloned,
                   poppedHist, executor, qlock>>
    /\ UNCHANGED sysvars

\* inside the poll of a scripted computation: cx.waker().wake_by_ref()
ScriptWakeByRef ==
    /\ pc = "polling"
    /\ future[task].kind = "script"
    /\ future[task].budget > 0
    /\ future' = [future EXCEPT ![task].budget = @ - 1]
    /\ WakeByRefInPoll(task)
    /\ UNCHANGED <<kept, pc, task, waker, nTasks, adv, done, last, lapsed,
                   cloned, poppedHist, executor, qlock>>
    /\ UNCHANGED sysvars

\* inside the poll of a scripted computation: cx.waker().clone(), handed to
\* some other owner (a timer, a producer thread)
ScriptClone ==
    /\ pc = "polling"
    /\ future[task].kind = "script"
    /\ future[task].budget > 0
    /\ future' = [future EXCEPT ![task].budget = @ - 1]
    /\ arc' = clone_fn(arc, task)
    /\ kept' = [kept EXCEPT ![task] = @ + 1]
    /\ cloned' = [cloned EXCEPT ![task] = @ + 1]
    /\ UNCHANGED <<queue, pc, task, waker, nTasks, adv, done, last,
                   stepWakes, lapsed, pushedHist, poppedHist,
                   executor, qlock>>
    /\ UNCHANGED sysvars

\* the poll of a scripted computation returns
ScriptReturn ==
    /\ pc = "polling"
    /\ future[task].kind = "script"
    /\ \E outcome \in {"Ready", "Pending"} :
        /\ Returned(task, outcome)
        /\ lapsed' = [lapsed EXCEPT
                        ![task] = @ \/ (outcome = "Pending" /\ stepWakes = 0)]
    /\ UNCHANGED <<queue, future, arc, kept, task, waker, nTasks, adv,
                   stepWakes, cloned, pushedHist, poppedHist,
                   executor, qlock>>
    /\ UNCHANGED sysvars

\* a loop body that leaks its local `task` (only the waker is dropped)
RunEndStep_leak ==
    /\ pc = "polled"
    /\ arc' = drop_fn(arc, task)
    /\ waker' = FALSE
    /\ task' = NoTask
    /\ stepWakes' = 0
    /\ pc' = "loop"
    /\ UNCHANGED <<queue, future, kept, nTasks, adv, done, last, lapsed,
                   cloned, pushedHist, poppedHist, executor, qlock>>
    /\ UNCHANGED sysvars

\* a Pending arm that puts the Task back into the queue itself
RunEndStep_requeue ==
    /\ pc = "polled"
    /\ IF last[task] = "Pending"
       THEN /\ queue' = push(queue, task)
            /\ pushedHist' = Append(pushedHist, task)
            /\ arc' = ArcDrop(drop_fn(ArcClone(arc, task), task), task)
       ELSE /\ arc' = ArcDrop(drop_fn(arc, task), task)
            /\ UNCHANGED <<queue, pushedHist>>
    /\ waker' = FALSE
    /\ task' = NoTask
    /\ stepWakes' = 0
    /\ pc' = "loop"
    /\ UNCHANGED <<future, kept, nTasks, adv, done, last, lapsed, cloned, poppedHist, executor, qlock>>
    /\ UNCHANGED sysvars

\* end of the loop body: the match arms do nothing, then the locals go out of
\* scope: the future's guard, cx, waker (drop_fn) and task
RunEndStep ==
    /\ pc = "polled"
    /\ arc' = ArcDrop(drop_fn(arc, task), task)
    /\ waker' = FALSE
    /\ task' = NoTask
    /\ stepWakes' = 0
    /\ pc' = "loop"
    /\ UNCHANGED <<queue, future, kept, nTasks, adv, done, last, lapsed,
                   cloned, pushedHist, poppedHist, executor, qlock>>
    /\ UNCHANGED sysvars

\* ------------------------------------------------------------------ Wakers held elsewhere
\* waker.wake() on a kept Waker of Task t: wake_fn consumes it
KeptWake(t) ==
    /\ kept[t] > 0
    /\ future[t].budget > 0
    /\ qlock = "free"
    /\ LET w == wake_fn(queue, arc, t) IN
        /\ queue' = w.queue
        /\ arc' = w.arc
    /\ pushedHist' = Append(pushedHist, t)
    /\ kept' = [kept EXCEPT ![t] = @ - 1]
    /\ future' = [future EXCEPT ![t].budget = @ - 1]
    /\ UNCHANGED <<pc, task, waker, nTasks, adv, done, last, stepWakes, lapsed,
                   cloned, poppedHist, executor, qlock>>
    /\ UNCHANGED sysvars

\* waker.wake_by_ref() on a kept Waker of Task t
KeptWakeByRef(t) ==
    /\ kept[t] > 0
    /\ future[t].budget > 0
    /\ qlock = "free"
    /\ LET w == wake_by_ref_fn(queue, arc, t) IN
        /\ queue' = w.queue
        /\ arc' = w.arc
    /\ pushedHist' = Append(pushedHist, t)
    /\ future' = [future EXCEPT ![t].budget = @ - 1]
    /\ UNCHANGED <<kept, pc, task, waker, nTasks, adv, done, last, stepWakes,
                   lapsed, cloned, poppedHist, executor, qlock>>
    /\ UNCHANGED sysvars

\* waker.clone() on a kept Waker of Task t
KeptClone(t) ==
    /\ kept[t] > 0
    /\ future[t].budget > 0
    /\ future' = [future EXCEPT ![t].budget = @ - 1]
    /\ arc' = clone_fn(arc, t)
    /\ kept' = [kept EXCEPT ![t] = @ + 1]
    /\ cloned' = [cloned EXCEPT ![t] = @ + 1]
    /\ UNCHANGED <<queue, pc, task, waker, nTasks, adv, done, last,
                   stepWakes, lapsed, pushedHist, poppedHist,
                   executor, qlock>>
    /\ UNCHANGED sysvars

\* drop of a kept Waker of Task t
KeptDrop(t) ==
    /\ kept[t] > 0
    /\ arc' = drop_fn(arc, t)
    /\ kept' = [kept EXCEPT ![t] = @ - 1]
    /\ UNCHANGED <<queue, future, pc, task, waker, nTasks, adv, done, last,
                   stepWakes, lapsed, cloned, pushedHist, poppedHist,
                   executor, qlock>>
    /\ UNCHANGED sysvars

\* ------------------------------------------------------------------ drop of the executor
\* drop of a sequence of Arc<Task>, front to back
RECURSIVE DropAll(_, _)
DropAll(a, q) == IF q = <<>> THEN a ELSE DropAll(ArcDrop(a, Head(q)), Tail(q))

\* the Tasks that exist: each holds one Arc<TaskQueue> in its field `queue`
LiveTasks(a) == {t \in Spawned : a[t].dropped = 0}

\* the count with Task.queue a Weak<TaskQueue>: only the executor's share
QueueStrong_weak == IF executor THEN 1 ELSE 0

\* strong count of the Arc<TaskQueue>: SimpleExecutor.queue and one Task.queue
\* (self.queue.clone() in spawn) per Task that exists
QueueStrong == (IF executor THEN 1 ELSE 0) + Cardinality(LiveTasks(arc))

\* drop of the SimpleExecutor, which run(&self) does not borrow any more: its
\* Arc<TaskQueue> is released; if that was the last share, the TaskQueue is
\* destroyed and with it the Arc<Task> entries of its VecDeque
DropExecutor ==
    /\ pc \in {"idle", "returned"}
    /\ executor
    /\ executor' = FALSE
    /\ IF QueueStrong = 1
       THEN /\ arc' = DropAll(arc, queue)
            /\ queue' = <<>>
       ELSE UNCHANGED <<arc, queue>>
    /\ UNCHANGED <<future, kept, pc, task, waker, nTasks, adv, done, last,
                   stepWakes, lapsed, cloned, pushedHist, poppedHist,
                   qlock>>
    /\ UNCHANGED sysvars

KeptWakeAny == \E t \in TaskIds : KeptWake(t)
KeptWakeByRefAny == \E t \in TaskIds : KeptWakeByRef(t)
KeptCloneAny == \E t \in TaskIds : KeptClone(t)
KeptDropAny == \E t \in TaskIds : KeptDrop(t)

\* ------------------------------------------------------------------ specification
\* the steps the thread inside run() takes
ExecutorStep ==
    \/ RunLock
    \/ RunPop
    \/ CountDownPoll
    \/ ForeverPoll
    \/ ScriptWakeByRef
    \/ ScriptClone
    \/ ScriptReturn
    \/ RunEndStep

Next ==
    \/ Spawn
    \/ RunCall
    \/ DropExecutor
    \/ RunLock
    \/ RunPop
    \/ CountDownPoll
    \/ ForeverPoll
    \/ ScriptWakeByRef
    \/ ScriptClone
    \/ ScriptReturn
    \/ RunEndStep
    \/ KeptWakeAny
    \/ KeptWakeByRefAny
    \/ KeptCloneAny
    \/ KeptDropAny

Spec == Init /\ [][Next]_vars

\* the thread that called run() keeps running: it is never starved of the CPU
FairSpec == Init /\ [][Next]_vars /\ WF_vars(ExecutorStep)

\* ------------------------------------------------------------------ computations that panic
\* the poll of a scripted computation panics: run() has no catch_unwind, so
\* the panic unwinds through the loop body and out of run(); the locals are
\* dropped on the way (the future's guard, which poisons the Mutex, cx, waker
\* and task) and the loop is not resumed
ScriptPanic ==
    /\ pc = "polling"
    /\ future[task].kind = "script"
    /\ last' = [last EXCEPT ![task] = "Panic"]
    /\ arc' = ArcDrop(drop_fn(arc, task), task)
    /\ waker' = FALSE
    /\ task' = NoTask
    /\ stepWakes' = 0
    /\ pc' = "panicked"
    /\ UNCHANGED <<queue, future, kept, nTasks, adv, done, lapsed, cloned,
                   pushedHist, poppedHist, executor, qlock>>
    /\ UNCHANGED sysvars

FaultNext ==
    \/ Next
    \/ ScriptPanic

\* the program with computations that may panic
FaultSpec == Init /\ [][FaultNext]_vars

\* ------------------------------------------------------------------ spawn from inside a poll
\* a nested spawn that builds the Task but does not push it
ScriptSpawn_nopush(n) ==
    /\ pc = "polling"
    /\ future[task].kind = "script"
    /\ executor
    /\ qlock = "free"
    /\ nTasks < MaxTasks
    /\ LET t == nTasks + 1 IN
        /\ nTasks' = t
        /\ future' = [future EXCEPT ![t] = CountDownNew(n)]
        /\ arc' = ArcDrop(ArcNew(arc, t), t)
        /\ UNCHANGED <<queue, pushedHist>>
    /\ UNCHANGED <<kept, pc, task, waker, adv, done, last, stepWakes, lapsed,
                   cloned, poppedHist, executor, qlock>>
    /\ UNCHANGED sysvars

\* the poll of a scripted computation calls executor.spawn(CountDown::new(n))
\* on the executor that is polling it (spawn takes &self and the executor is
\* Sync, so the computation can reach it through a shared handle). run()
\* holds the queue's lock only inside pop, so the push of spawn is not blocked
ScriptSpawn(n) ==
    /\ pc = "polling"
    /\ future[task].kind = "script"
    /\ executor
    /\ qlock = "free"
    /\ nTasks < MaxTasks
    /\ LET t == nTasks + 1 IN
        /\ nTasks' = t
        /\ future' = [future EXCEPT ![t] = CountDownNew(n)]
        /\ arc' = ArcNew(arc, t)
        /\ queue' = push(queue, t)
        /\ pushedHist' = Append(pushedHist, t)
    /\ UNCHANGED <<kept, pc, task, waker, adv, done, last, stepWakes, lapsed,
                   cloned, poppedHist, executor, qlock>>
    /\ UNCHANGED sysvars

ScriptSpawnAny == \E n \in 0..MaxCount : ScriptSpawn(n)

NestNext ==
    \/ Next
    \/ ScriptSpawnAny

\* the program with computations that spawn onto their own executor
NestSpec == Init /\ [][NestNext]_vars

\* ------------------------------------------------------------------ run() called again
\* a run() that, when called again, first queues every Task that is still
\* alive and has no entry (an executor that polls all its Tasks on entry)
RunAgain_repoll ==
    /\ pc = "returned"
    /\ executor
    /\ qlock = "free"
    /\ LET live == {t \in Spawned : arc[t].dropped = 0
                                       /\ \A i \in 1..Len(queue) : queue[i] # t}
           t == IF live = {} THEN NoTask ELSE CHOOSE u \in live : TRUE IN
        IF t = NoTask
        THEN UNCHANGED <<queue, arc, pushedHist>>
        ELSE /\ queue' = push(queue, t)
             /\ arc' = ArcClone(arc, t)
             /\ pushedHist' = Append(pushedHist, t)
    /\ pc' = "loop"
    /\ again' = TRUE
    /\ UNCHANGED <<future, kept, task, waker, nTasks, adv, done, last,
                   stepWakes, lapsed, cloned, poppedHist, executor, qlock>>
    /\ UNCHANGED <<queues, qlocks, home, comp, flock, handles, wpc, wexec, wtask>>

\* the caller enters run() after an earlier call has returned: run() keeps no
\* state of its own between calls, it starts at the loop test again
RunAgain ==
    /\ pc = "returned"
    /\ executor
    /\ pc' = "loop"
    /\ again' = TRUE
    /\ UNCHANGED <<queue, future, arc, kept, task, waker, nTasks, adv, done, last,
                   stepWakes, lapsed, cloned, pushedHist, poppedHist,
                   executor, qlock>>
    /\ UNCHANGED <<queues, qlocks, home, comp, flock, handles, wpc, wexec, wtask>>

RerunNext ==
    \/ Next
    \/ RunAgain

\* the program with the repeated calls of run() recorded
RerunSpec == Init /\ [][RerunNext]_vars

\* ------------------------------------------------------------------ a CountDown polled by another computation
\* a computation that owns a CountDown::new(n) and polls it from its own
\* poll, with its own Context, as often as it likes: n + 2 times in its
\* life, which is one poll more than the CountDown needs to be Ready
WrapperNew(n) == [kind |-> "wrapper", count |-> n, remaining |-> n, budget |-> n + 2]

SpawnWrapper == \E n \in 0..MaxCount : spawn(WrapperNew(n))

\* inside the poll of the wrapper: one call of CountDown::poll(cx). The
\* wrapper then polls on, or returns what this call returned; last[task]
\* follows the CountDown's results
WrapperPoll(more) ==
    /\ pc = "polling"
    /\ future[task].kind = "wrapper"
    /\ future[task].budget > 0
    /\ LET p == CountDown_poll(future[task].remaining) IN
        /\ future' = [future EXCEPT ![task].remaining = p.remaining,
                                    ![task].budget = @ - 1]
        /\ IF p.wakes = 1
           THEN WakeByRefInPoll(task)
           ELSE UNCHANGED <<queue, arc, pushedHist, stepWakes>>
        /\ IF more
           THEN /\ last' = [last EXCEPT ![task] = p.result]
                /\ UNCHANGED <<done, pc>>
           ELSE Returned(task, p.result)
    /\ UNCHANGED <<kept, task, waker, nTasks, adv, lapsed, cloned, poppedHist,
                   executor, qlock>>
    /\ UNCHANGED sysvars

WrapperPollAny == \E more \in BOOLEAN : WrapperPoll(more)

WrapNext ==
    \/ Next
    \/ SpawnWrapper
    \/ WrapperPollAny

\* the program with a computation that polls a CountDown itself
WrapSpec == Init /\ [][WrapNext]_vars

\* ------------------------------------------------------------------ several executors and threads
\* SimpleExecutor is Sync (its only field is an Arc of Mutex-protected data),
\* so several threads may call run(&self) on one executor, and a program may
\* build several executors. Here each Task's computation is a scripted one:
\* comp[t] bounds the wake_by_ref and clone calls it makes on its Wakers. The
\* reference counts are left to the single-executor part above.

\* Tasks created so far, over all executors
SysSpawned == {t \in TaskIds : home[t] # "none"}

\* `arc.queue` in wake_fn and wake_by_ref_fn, with the Task.queue of the first
\* executor taken for every Task
task_queue_first(h, t) == "e1"

\* `arc.queue` in wake_fn and wake_by_ref_fn: the TaskQueue stored in the Task
task_queue(h, t) == h[t]

\* SimpleExecutor::spawn on executor e, before any thread has called run();
\* at most one of the computations uses its Wakers at all
spawn_on(e, b) ==
    /\ \A w \in Workers : wpc[w] = "idle"
    /\ Cardinality(SysSpawned) < MaxTasks
    /\ b > 0 => \A u \in SysSpawned : comp[u] = 0
    /\ LET t == Cardinality(SysSpawned) + 1 IN
        /\ home' = [home EXCEPT ![t] = e]
        /\ comp' = [comp EXCEPT ![t] = b]
        /\ queues' = [queues EXCEPT ![e] = push(@, t)]
    /\ UNCHANGED <<qlocks, flock, handles, wpc, wexec, wtask>>
    /\ UNCHANGED execvars

SpawnOn == \E e \in Executors, b \in 0..MaxWakes : spawn_on(e, b)

\* thread w calls e.run(); each thread does so once
WorkerRunCall(w, e) ==
    /\ wpc[w] = "idle"
    /\ SysSpawned # {}
    /\ wpc' = [wpc EXCEPT ![w] = "loop"]
    /\ wexec' = [wexec EXCEPT ![w] = e]
    /\ UNCHANGED <<queues, qlocks, home, comp, flock, handles, wtask>>
    /\ UNCHANGED execvars

\* TaskQueue::pop, first half: self.queue.lock().unwrap() at the loop test
WorkerRunLock(w) ==
    /\ wpc[w] = "loop"
    /\ qlocks[wexec[w]] = "free"
    /\ qlocks' = [qlocks EXCEPT ![wexec[w]] = w]
    /\ UNCHANGED <<queues, home, comp, flock, handles, wpc, wexec, wtask>>
    /\ UNCHANGED execvars

\* a loop test that locks the deque inline: the guard lives through the body
WorkerRunPop_holdlock(w) ==
    /\ wpc[w] = "loop"
    /\ qlocks[wexec[w]] = w
    /\ LET r == pop(queues[wexec[w]]) IN
        IF r.res = NoTask
        THEN /\ wpc' = [wpc EXCEPT ![w] = "returned"]
             /\ qlocks' = [qlocks EXCEPT ![wexec[w]] = "free"]
             /\ UNCHANGED <<queues, wtask>>
        ELSE /\ queues' = [queues EXCEPT ![wexec[w]] = r.queue]
             /\ wtask' = [wtask EXCEPT ![w] = r.res]
             /\ wpc' = [wpc EXCEPT ![w] = "lockfuture"]
             /\ UNCHANGED qlocks
    /\ UNCHANGED <<home, comp, flock, handles, wexec>>
    /\ UNCHANGED execvars

\* `while let Some(task) = self.queue.pop()`: pop_front, the guard is dropped
\* as pop returns; on None run() returns, on Some the Waker is built
WorkerRunPop(w) ==
    /\ wpc[w] = "loop"
    /\ qlocks[wexec[w]] = w
    /\ qlocks' = [qlocks EXCEPT ![wexec[w]] = "free"]
    /\ LET r == pop(queues[wexec[w]]) IN
        IF r.res = NoTask
        THEN /\ wpc' = [wpc EXCEPT ![w] = "returned"]
             /\ UNCHANGED <<queues, wtask>>
        ELSE /\ queues' = [queues EXCEPT ![wexec[w]] = r.queue]
             /\ wtask' = [wtask EXCEPT ![w] = r.res]
             /\ wpc' = [wpc EXCEPT ![w] = "lockfuture"]
    /\ UNCHANGED <<home, comp, flock, handles, wexec>>
    /\ UNCHANGED execvars

\* a body that reaches the computation without its Mutex
WorkerFutureLock_nolock(w) ==
    /\ wpc[w] = "lockfuture"
    /\ flock' = [flock EXCEPT ![wtask[w]] = w]
    /\ wpc' = [wpc EXCEPT ![w] = "polling"]
    /\ UNCHANGED <<queues, qlocks, home, comp, handles, wexec, wtask>>
    /\ UNCHANGED execvars

\* `let mut future = task.future.lock().unwrap()`: the thread waits until the
\* Mutex of the computation is free, then poll is called
WorkerFutureLock(w) ==
    /\ wpc[w] = "lockfuture"
    /\ flock[wtask[w]] = "free"
    /\ flock' = [flock EXCEPT ![wtask[w]] = w]
    /\ wpc' = [wpc EXCEPT ![w] = "polling"]
    /\ UNCHANGED <<queues, qlocks, home, comp, handles, wexec, wtask>>
    /\ UNCHANGED execvars

\* inside the poll: cx.waker().wake_by_ref(), which locks the deque of the
\* Task's own TaskQueue for the push
WorkerPollWakeByRef(w) ==
    /\ wpc[w] = "polling"
    /\ comp[wtask[w]] > 0
    /\ LET e == task_queue(home, wtask[w]) IN
        /\ qlocks[e] = "free"
        /\ queues' = [queues EXCEPT ![e] = push(@, wtask[w])]
    /\ comp' = [comp EXCEPT ![wtask[w]] = @ - 1]
    /\ UNCHANGED <<qlocks, home, flock, handles, wpc, wexec, wtask>>
    /\ UNCHANGED execvars

\* inside the poll: cx.waker().clone(), handed to another thread
WorkerPollClone(w) ==
    /\ wpc[w] = "polling"
    /\ comp[wtask[w]] > 0
    /\ comp' = [comp EXCEPT ![wtask[w]] = @ - 1]
    /\ handles' = [handles EXCEPT ![wtask[w]] = @ + 1]
    /\ UNCHANGED <<queues, qlocks, home, flock, wpc, wexec, wtask>>
    /\ UNCHANGED execvars

\* poll returns, Ready or Pending: both match arms are empty
WorkerPollReturn(w) ==
    /\ wpc[w] = "polling"
    /\ wpc' = [wpc EXCEPT ![w] = "polled"]
    /\ UNCHANGED <<queues, qlocks, home, comp, flock, handles, wexec, wtask>>
    /\ UNCHANGED execvars

\* end of the loop body: the future's guard, cx, waker and task are dropped
WorkerRunEndStep(w) ==
    /\ wpc[w] = "polled"
    /\ flock' = [flock EXCEPT ![wtask[w]] = "free"]
    /\ wtask' = [wtask EXCEPT ![w] = NoTask]
    /\ wpc' = [wpc EXCEPT ![w] = "loop"]
    /\ UNCHANGED <<queues, qlocks, home, comp, handles, wexec>>
    /\ UNCHANGED execvars

\* another thread calls wake() on a Waker of Task t that it holds
HandleWake(t) ==
    /\ handles[t] > 0
    /\ LET e == task_queue(home, t) IN
        /\ qlocks[e] = "free"
        /\ queues' = [queues EXCEPT ![e] = push(@, t)]
    /\ handles' = [handles EXCEPT ![t] = @ - 1]
    /\ UNCHANGED <<qlocks, home, comp, flock, wpc, wexec, wtask>>
    /\ UNCHANGED execvars

\* another thread drops a Waker of Task t that it holds
HandleDrop(t) ==
    /\ handles[t] > 0
    /\ handles' = [handles EXCEPT ![t] = @ - 1]
    /\ UNCHANGED <<queues, qlocks, home, comp, flock, wpc, wexec, wtask>>
    /\ UNCHANGED execvars

\* the steps of thread w inside run()
WorkerStep(w) ==
    \/ WorkerRunLock(w)
    \/ WorkerRunPop(w)
    \/ WorkerFutureLock(w)
    \/ WorkerPollWakeByRef(w)
    \/ WorkerPollClone(w)
    \/ WorkerPollReturn(w)
    \/ WorkerRunEndStep(w)

SysNext ==
    \/ SpawnOn
    \/ \E w \in Workers, e \in Executors : WorkerRunCall(w, e)
    \/ \E w \in Workers : WorkerRunLock(w)
    \/ \E w \in Workers : WorkerRunPop(w)
    \/ \E w \in Workers : WorkerFutureLock(w)
    \/ \E w \in Workers : WorkerPollWakeByRef(w)
    \/ \E w \in Workers : WorkerPollClone(w)
    \/ \E w \in Workers : WorkerPollReturn(w)
    \/ \E w \in Workers : WorkerRunEndStep(w)
    \/ \E t \in TaskIds : HandleWake(t)
    \/ \E t \in TaskIds : HandleDrop(t)

SysSpec == Init /\ [][SysNext]_vars

\* no thread inside run() is starved of the CPU
SysFairSpec == Init /\ [][SysNext]_vars /\ \A w \in Workers : WF_vars(WorkerStep(w))

\* ------------------------------------------------------------------ helpers of the properties
\* entries of the queue q that refer to Task t
Count(q, t) == Cardinality({i \in 1..Len(q) : q[i] = t})

\* the run() in progress has not returned yet
InRun == pc \in {"loop", "polling", "polled"}

\* every spawned computation uses its Wakers a bounded number of times
NoForever == \A t \in Spawned : future[t].kind # "forever"

HasForever == \E t \in Spawned : future[t].kind = "forever"

\* shares of Task t held by run()'s locals: `waker` and `task`
ExecShares(t) == IF task = t THEN (IF waker THEN 2 ELSE 1) ELSE 0

\* every Arc<Task> and raw pointer to Task t that is in circulation
Holders(t) == Count(queue, t) + kept[t] + ExecShares(t)

IsPrefix(s, r) == Len(s) <= Len(r) /\ SubSeq(r, 1, Len(s)) = s

RECURSIVE SumUpTo(_, _)
SumUpTo(f, n) == IF n = 0 THEN 0 ELSE f[n] + SumUpTo(f, n - 1)

\* ------------------------------------------------------------------ properties

\* C1: when every spawned computation uses its Wakers a bounded number of
\* times, a run() in progress eventually returns (under FairSpec: the thread
\* in run() keeps taking steps).
C1_RunReturns == (InRun /\ NoForever) ~> (pc = "returned")

\* run() has returned after polling a scripted computation at least three
\* times: it woke itself and was put back into the queue
C1_Witness ==
    /\ pc = "returned"
    /\ \E t \in Spawned : future[t].kind = "script" /\ adv[t] >= 3
\* C2: by the time run() returns, every spawned computation that uses its
\* Wakers a bounded number of times has returned Ready exactly once. Stated
\* for the computations that woke themselves in every poll that returned
\* Pending (the others are never polled again), which is where the code fails.
C2_DoneExactlyOnce ==
    pc = "returned" =>
        \A t \in Spawned :
            (future[t].kind # "forever" /\ ~lapsed[t]) => done[t] = 1

\* C3: poll is never called on a Task whose poll has already returned Ready.
C3_NoAdvanceAfterDone == pc = "polling" => done[task] = 0
\* C4: the strong count of every Task equals the number of its holders in
\* circulation: queue entries, Wakers held outside run(), and run()'s locals
\* `waker` and `task`; while there is any holder the Task is not destroyed.
C4_RefCountInv ==
    \A t \in Spawned :
        /\ arc[t].strong = Holders(t)
        /\ Holders(t) > 0 => arc[t].dropped = 0

\* a Task that is being polled while it is also queued and a Waker of it is
\* held outside run()
C4_Witness ==
    \E t \in Spawned :
        /\ pc = "polling" /\ task = t
        /\ Count(queue, t) >= 1
        /\ kept[t] >= 1
        /\ arc[t].strong = 4

\* C5: a Task is destroyed at most once, exactly when its last share is
\* released, and then no queue entry, Waker or local refers to it.
C5_DestroyedOnce ==
    \A t \in TaskIds :
        /\ arc[t].dropped <= 1
        /\ arc[t].dropped = 1 <=> (t \in Spawned /\ arc[t].strong = 0)
        /\ arc[t].dropped = 1 => Holders(t) = 0

\* a destroyed Task of which a Waker was cloned, and invoked or released, and
\* which was woken and polled again, before its destruction
C5_Witness ==
    \E t \in Spawned : arc[t].dropped = 1 /\ cloned[t] >= 1 /\ adv[t] >= 2

\* C6: a CountDown spawned alone with count N is polled N + 1 times in run():
\* the polls before the (N+1)th return Pending, the (N+1)th returns Ready and
\* is the last.
C6_CountdownAlone ==
    (nTasks = 1 /\ future[1].kind = "countdown") =>
        /\ adv[1] <= future[1].count + 1
        /\ pc # "polling" => done[1] = (IF adv[1] = future[1].count + 1 THEN 1 ELSE 0)
        /\ pc = "returned" => adv[1] = future[1].count + 1 /\ last[1] = "Ready"

\* run() has returned from a lone CountDown::new(3, _) after 4 polls
C6_Witness ==
    /\ pc = "returned" /\ nTasks = 1
    /\ future[1].kind = "countdown" /\ future[1].count = 3
    /\ adv[1] = 4 /\ done[1] = 1

\* the polls of all Tasks, and what the CountDowns' counts ask for
TotalPolls == SumUpTo(adv, nTasks)
CountsPlusOne == SumUpTo([t \in TaskIds |-> future[t].count + 1], nTasks)

\* C7: when only CountDowns were spawned, run() returns after the sum over
\* them of (count + 1) polls, and each of them has returned Ready once.
C7_CountdownSum ==
    (pc = "returned" /\ \A t \in Spawned : future[t].kind = "countdown") =>
        /\ TotalPolls = CountsPlusOne
        /\ \A t \in Spawned : done[t] = 1 /\ last[t] = "Ready"

\* counts 3 and 2: run() has returned after 7 polls
C7_Witness ==
    /\ pc = "returned" /\ nTasks = 2
    /\ future[1].kind = "countdown" /\ future[1].count = 3
    /\ future[2].kind = "countdown" /\ future[2].count = 2
    /\ TotalPolls = 7

\* C8: run() on an executor on which nothing was spawned returns at its
\* first loop test and polls nothing.
C8_EmptyRun ==
    /\ [](nTasks = 0 => (pc \in {"idle", "loop", "returned"} /\ TotalPolls = 0
                          /\ poppedHist = <<>>))
    /\ [][(nTasks = 0 /\ pc = "loop") =>
              \/ pc' = "returned"
              \/ (qlock = "free" /\ qlock' = "run" /\ pc' = "loop")]_vars

\* run() has returned with nothing spawned
C8_Witness == pc = "returned" /\ nTasks = 0 /\ pushedHist = <<>>

\* C9: with a computation that wakes itself in every poll and always returns
\* Pending, run() never returns: every loop test finds the queue non-empty.
C9_ForeverNeverReturns ==
    HasForever =>
        /\ pc # "returned"
        /\ pc = "loop" => queue # <<>>

\* the loop test after the third poll of such a computation
C9_Witness ==
    \E t \in Spawned : future[t].kind = "forever" /\ adv[t] = 3 /\ pc = "loop"

\* C10: the Tasks that pop has returned are, in order, a prefix of the Tasks
\* that were pushed; what is left of the pushes is the queue.
C10_Fifo ==
    /\ IsPrefix(poppedHist, pushedHist)
    /\ pushedHist = poppedHist \o queue

\* pops of two Tasks interleaved, with pushes still waiting in the queue
C10_Witness ==
    /\ Len(poppedHist) >= 3
    /\ \E i, j \in 1..Len(poppedHist) : i < j /\ poppedHist[i] # poppedHist[j]
    /\ Len(queue) >= 2 /\ queue[1] # queue[2]
\* run() stands at a loop test whose head Task has been polled MaxAdvance
\* times: the end of what is followed of a computation that never finishes
Horizon == pc = "loop" /\ queue # <<>> /\ adv[Head(queue)] >= MaxAdvance

\* C11: while run() executes, every entry pushed so far is eventually popped
\* (under FairSpec); entries are popped once each in insertion order, and
\* every pop is followed by exactly one poll of the popped Task.
C11_EveryEntryPopped ==
    /\ [](pushedHist = poppedHist \o queue)
    /\ [](\A t \in TaskIds :
            adv[t] = Cardinality({i \in 1..Len(poppedHist) : poppedHist[i] = t}))
    /\ [][poppedHist' # poppedHist =>
            /\ poppedHist' = Append(poppedHist, Head(queue))
            /\ pc' = "polling" /\ task' = Head(queue)
            /\ adv' = [adv EXCEPT ![Head(queue)] = @ + 1]]_vars
    /\ InRun ~> (poppedHist = pushedHist \/ Horizon)

\* run() has returned after popping an entry that a cloned Waker pushed while
\* another Task was being polled
C11_Witness ==
    /\ pc = "returned" /\ queue = <<>>
    /\ Len(poppedHist) >= 4
    /\ \E t \in Spawned : cloned[t] >= 1 /\ kept[t] = 0 /\ adv[t] >= 2
\* C12: every push appends its Task at the tail and makes the queue one
\* longer, also when the Task is in the queue already.
C12_PushAppends ==
    [][pushedHist' # pushedHist =>
        /\ Len(pushedHist') = Len(pushedHist) + 1
        /\ queue' = Append(queue, pushedHist'[Len(pushedHist')])
        /\ Len(queue') = Len(queue) + 1]_vars

\* the queue holds two entries for the same Task
C12_Witness ==
    \E i, j \in 1..Len(queue) : i < j /\ queue[i] = queue[j]

\* C13: every wake of a Task is one queue entry and every queue entry is one
\* poll: the pushes of a Task are its queue entries plus its pops, its polls
\* are its pops; k wakes inside its first poll leave k entries for it; when
\* run() has drained them it was polled once per push.
C13_EachWakeOnePoll ==
    \A t \in Spawned :
        /\ Count(queue, t) + Count(poppedHist, t) = Count(pushedHist, t)
        /\ adv[t] = Count(poppedHist, t)
        /\ (pc \in {"polling", "polled"} /\ task = t /\ adv[t] = 1 /\ cloned[t] = 0)
              => Count(queue, t) = stepWakes
        /\ (pc = "returned" /\ Count(queue, t) = 0) => adv[t] = Count(pushedHist, t)

\* a computation woke itself twice in one poll: two entries for it wait
C13_Witness ==
    /\ pc = "polled" /\ stepWakes = 2
    /\ Count(queue, task) = 2

\* C14: run() itself never adds a queue entry: the pop removes the head, a
\* poll that returns without a wake and the end of the loop body leave the
\* queue as it is, and the queue only grows by a spawn or by a wake.
C14_NoRequeue ==
    [][/\ (pc = "loop" /\ pc' = "polling") => queue' = Tail(queue)
       /\ (pc = "polling" /\ pc' = "polled" /\ stepWakes' = stepWakes)
             => queue' = queue
       /\ (pc = "polled" /\ pc' = "loop") => queue' = queue
       /\ Len(queue') > Len(queue) =>
             \/ nTasks' = nTasks + 1
             \/ stepWakes' = stepWakes + 1
             \/ \E t \in Spawned :
                    kept[t] > 0 /\ future'[t].budget = future[t].budget - 1]_vars

\* a Task whose poll returned Pending without a wake is gone from the queue
\* at the next loop test, while another Task still waits
C14_Witness ==
    \E t \in Spawned :
        /\ pc = "loop" /\ lapsed[t] /\ last[t] = "Pending"
        /\ Count(queue, t) = 0
        /\ queue # <<>>

\* C15: after a poll that returned Ready the loop body adds no entry and
\* drops the waker and the local task; the Task is destroyed there exactly
\* when no queue entry and no other Waker of it is left.
C15_DoneDropsTask ==
    [][(pc = "polled" /\ pc' = "loop" /\ last[task] = "Ready") =>
        /\ queue' = queue /\ pushedHist' = pushedHist
        /\ arc'[task].strong = arc[task].strong - 2
        /\ arc'[task].dropped =
              (IF Count(queue, task) = 0 /\ kept[task] = 0 THEN 1 ELSE 0)]_vars

\* a Task destroyed at the end of the step in which it returned Ready
C15_Witness ==
    \E t \in Spawned :
        pc = "loop" /\ last[t] = "Ready" /\ done[t] = 1 /\ arc[t].dropped = 1

\* C16: wake() on a Waker appends one entry for its Task, leaves the strong
\* count as it was (the Waker's share became the entry's) and the Waker is
\* gone.
C16_WakeConsumes ==
    [][\A t \in Spawned :
         (kept'[t] = kept[t] - 1 /\ pushedHist' # pushedHist) =>
            /\ queue' = Append(queue, t)
            /\ arc'[t] = arc[t]
            /\ \A u \in Spawned \ {t} : arc'[u] = arc[u] /\ kept'[u] = kept[u]]_vars

\* the only cloned Waker of a Task is gone, and an entry for the Task waits
\* in the queue after run() has returned
C16_Witness ==
    \E t \in Spawned :
        /\ pc = "returned" /\ cloned[t] = 1 /\ kept[t] = 0
        /\ Count(queue, t) = 1 /\ arc[t].strong = 1

\* C17: wake_by_ref() on a Waker appends one entry for its Task, adds one to
\* the strong count and leaves the Waker live.
C17_WakeByRefKeeps ==
    [][\A t \in Spawned :
         (pushedHist' = Append(pushedHist, t) /\ nTasks' = nTasks /\ kept' = kept) =>
            /\ queue' = Append(queue, t)
            /\ arc'[t].strong = arc[t].strong + 1
            /\ arc'[t].dropped = arc[t].dropped
            /\ waker' = waker /\ task' = task]_vars

\* the live `waker` of the poll in progress was invoked twice by reference
C17_Witness ==
    /\ pc = "polling" /\ waker /\ stepWakes = 2
    /\ Count(queue, task) = 2
    /\ arc[task].strong = 4

\* C18: a clone of a Waker adds one to the strong count and one live Waker of
\* the same Task and leaves the queue and the original alone; the drop of a
\* Waker takes one from the count and leaves the queue alone.
C18_CloneRelease ==
    [][\A t \in Spawned :
         /\ cloned'[t] = cloned[t] + 1 =>
              /\ arc'[t].strong = arc[t].strong + 1
              /\ arc'[t].dropped = arc[t].dropped
              /\ kept'[t] = kept[t] + 1
              /\ waker' = waker /\ task' = task
              /\ queue' = queue
         /\ (kept'[t] = kept[t] - 1 /\ pushedHist' = pushedHist) =>
              /\ arc'[t].strong = arc[t].strong - 1
              /\ queue' = queue]_vars

\* two Wakers of a Task were cloned and one of them dropped; the Task was
\* never woken
C18_Witness ==
    \E t \in Spawned :
        cloned[t] = 2 /\ kept[t] = 1 /\ Count(pushedHist, t) = 1

\* a Task that exists holds a strong Arc<TaskQueue> (field `queue`), and an
\* entry of the TaskQueue is a strong Arc<Task>
Cycle(t) == arc[t].dropped = 0 /\ Count(queue, t) > 0

\* C19: no Task and the TaskQueue hold strong references to each other, so
\* once the executor is dropped every Task without a Waker left elsewhere is
\* destroyed, and the TaskQueue with them.
C19_NoCycle ==
    /\ \A t \in Spawned : ~Cycle(t)
    /\ ~executor =>
          /\ \A t \in Spawned : kept[t] = 0 => arc[t].dropped = 1
          /\ (\A t \in Spawned : kept[t] = 0) => QueueStrong = 0

\* C20: while a Task is being polled, and until the end of the loop body, the
\* thread in run() does not hold the Mutex of the queue.
C20_NoLockDuringPoll == pc \in {"polling", "polled"} => qlock # "run"

\* a wake from inside the poll has locked the queue and pushed
C20_Witness == pc = "polling" /\ stepWakes >= 1 /\ Count(queue, task) >= 1
C24_SpawnEnqueues ==
    /\ [][nTasks' # nTasks =>
            /\ nTasks' = nTasks + 1
            /\ queue' = Append(queue, nTasks')
            /\ arc'[nTasks'] = [strong |-> 1, dropped |-> 0]
            /\ adv' = adv /\ done' = done /\ last' = last
            /\ pc' = pc /\ task' = task]_vars
    /\ [](\A t \in Spawned :
            Count(poppedHist, t) = 0 =>
                /\ adv[t] = 0 /\ last[t] = "none"
                /\ future[t].remaining = future[t].count)
    /\ [][\A t \in TaskIds :
            (adv[t] = 0 /\ adv'[t] # 0) =>
                /\ pc = "loop" /\ pc' = "polling"
                /\ queue # <<>> /\ Head(queue) = t /\ task' = t]_vars

\* two Tasks spawned and queued in spawn order, nothing polled yet
C24_Witness ==
    /\ nTasks = 2 /\ queue = <<1, 2>> /\ pc = "idle"
    /\ adv[1] = 0 /\ adv[2] = 0

\* C27: run() returns at the loop test that finds the queue empty, whether or
\* not a Waker of a Task that returned Pending is still held; after the return
\* nothing is popped or polled until run() is called again, so an entry that
\* the Waker pushes then waits in the queue.
C27_ReturnsOnEmpty ==
    /\ [][(pc = "loop" /\ pc' # "loop" /\ queue = <<>>) =>
              /\ pc' = "returned"
              /\ kept' = kept /\ queue' = queue]_vars
    /\ [][pc = "returned" =>
              /\ pc' \in {"returned", "loop"}
              /\ adv' = adv /\ poppedHist' = poppedHist
              /\ \A t \in Spawned : Count(queue', t) >= Count(queue, t) \/ ~executor']_vars

\* run() has returned while a Waker of a pending Task was held; the Waker was
\* invoked after that, and the Task waits in the queue, polled only once
C27_Witness ==
    \E t \in Spawned :
        /\ pc = "returned" /\ queue = <<t>>
        /\ last[t] = "Pending" /\ adv[t] = 1
        /\ cloned[t] = 1 /\ kept[t] = 0

\* C28: run() holds a Waker exactly while it is in the loop body, built for
\* the Task it popped; the shares of a Task beyond its queue entries and
\* run()'s local `task` are its live Wakers (that one and the clones held
\* elsewhere), so a Task of which no clone was made has no live Waker once
\* the loop body has ended.
C28_OneWakerPerStep ==
    /\ waker <=> pc \in {"polling", "polled"}
    /\ waker => task \in Spawned
    /\ \A t \in Spawned :
          /\ kept[t] <= cloned[t]
          /\ arc[t].strong - Count(queue, t) - (IF task = t THEN 1 ELSE 0)
                = kept[t] + (IF waker /\ task = t THEN 1 ELSE 0)
          /\ (cloned[t] = 0 /\ task # t) => arc[t].strong = Count(queue, t)

\* a Task polled twice, of which no Waker was ever cloned, at a loop test: its
\* only share is its queue entry
C28_Witness ==
    \E t \in Spawned :
        /\ pc = "loop" /\ adv[t] >= 2 /\ cloned[t] = 0
        /\ Count(queue, t) = 1 /\ arc[t].strong = 1

\* where a Task is in its life
Lifecycle(t) ==
    IF t \notin Spawned THEN "Idle"
    ELSE IF last[t] = "Ready" THEN "Terminated"
    ELSE IF pc \in {"polling", "polled"} /\ task = t THEN "Running"
    ELSE IF Count(queue, t) > 0 THEN "Queued"
    ELSE "Idle"

LifecycleSteps ==
    {<<"Idle", "Queued">>, <<"Queued", "Running">>, <<"Running", "Queued">>,
     <<"Running", "Idle">>, <<"Running", "Terminated">>}

\* C29: a Task moves only Idle -> Queued -> Running -> {Queued, Idle,
\* Terminated}; it is polled only by the step that pops an entry of it; a
\* Task whose poll returned Ready is never polled again.
C29_Lifecycle ==
    [][\A t \in TaskIds :
          /\ Lifecycle(t)' # Lifecycle(t) =>
                <<Lifecycle(t), Lifecycle(t)'>> \in LifecycleSteps
          /\ adv'[t] # adv[t] =>
                /\ queue # <<>> /\ Head(queue) = t /\ queue' = Tail(queue)
                /\ Lifecycle(t) = "Queued"]_vars

\* C30: a CountDown that wakes itself goes behind every entry in the queue;
\* CountDown 3 (A) and CountDown 2 (B), spawned in that order, are polled
\* A,B,A,B,A,B,A, and B returns Ready before A.
C30_RoundRobin ==
    /\ (pc = "polled" /\ last[task] = "Pending"
          /\ \A t \in Spawned : future[t].kind = "countdown")
            => (queue # <<>> /\ queue[Len(queue)] = task)
    /\ (/\ nTasks = 2
        /\ future[1].kind = "countdown" /\ future[1].count = 3
        /\ future[2].kind = "countdown" /\ future[2].count = 2)
            => /\ IsPrefix(poppedHist, <<1, 2, 1, 2, 1, 2, 1>>)
               /\ done[1] >= 1 => done[2] >= 1
               /\ pc = "returned" => poppedHist = <<1, 2, 1, 2, 1, 2, 1>>

\* run() has returned from CountDown 3 and CountDown 2 after the seven polls
C30_Witness ==
    /\ pc = "returned" /\ nTasks = 2
    /\ future[1].kind = "countdown" /\ future[1].count = 3
    /\ future[2].kind = "countdown" /\ future[2].count = 2
    /\ poppedHist = <<1, 2, 1, 2, 1, 2, 1>>
    /\ last[1] = "Ready" /\ last[2] = "Ready"
\* C26: a computation that fails inside its poll ends its own Task only and
\* run() goes on: whenever run() has ended, every CountDown spawned beside
\* the failed computation has been polled until it returned Ready.
C26_FaultIsDone ==
    \A u \in Spawned :
        (pc \notin {"idle", "loop", "polling", "polled"}
            /\ future[u].kind = "countdown") => last[u] = "Ready"

\* the threads that are inside the poll of Task t, or between its return and
\* the end of the loop body
Advancing(t) == {w \in Workers : wpc[w] \in {"polling", "polled"} /\ wtask[w] = t}

\* no Mutex is held
LocksFree ==
    /\ \A e \in Executors : qlocks[e] = "free"
    /\ \A t \in TaskIds : flock[t] = "free"

\* C21: no thread waits for a lock for ever. A thread holds the Mutex of a
\* deque only between lock and pop_front at its loop test, where it waits for
\* nothing; it holds the Mutex of a computation only from the lock before
\* poll to the end of the loop body, and holds no deque's Mutex then; so
\* whatever is held, a state with every Mutex free comes again (under
\* SysFairSpec), and a wake from inside the poll or from another thread gets
\* its push done.
C21_DeadlockFree ==
    /\ [](\A w \in Workers :
            wpc[w] \in {"lockfuture", "polling", "polled"} =>
                \A e \in Executors : qlocks[e] # w)
    /\ [](\A e \in Executors :
            qlocks[e] # "free" => (wpc[qlocks[e]] = "loop" /\ wexec[qlocks[e]] = e))
    /\ [](\A t \in TaskIds : flock[t] # "free" => flock[t] \in Advancing(t))
    /\ []<>LocksFree

\* in its first poll a computation woke itself and handed out a clone of its
\* Waker, and the clone's holder invoked it while the poll was still going on
C21_Witness ==
    \E w \in Workers :
        /\ wpc[w] = "polling"
        /\ comp[wtask[w]] = 0 /\ handles[wtask[w]] = 0
        /\ Count(queues[home[wtask[w]]], wtask[w]) = 2

\* C22: at most one thread at a time is inside the poll of a Task, however
\* many threads run the executor and however many entries the Task has.
C22_OneAdvance ==
    \A t \in TaskIds :
        /\ Cardinality(Advancing(t)) <= 1
        /\ Advancing(t) # {} => flock[t] \in Advancing(t)

\* two threads popped an entry of the same Task: one polls it, the other
\* waits for the Mutex of its computation
C22_Witness ==
    \E w, v \in Workers :
        /\ w # v /\ wtask[w] = wtask[v] /\ wexec[w] = wexec[v]
        /\ wpc[w] = "polling" /\ wpc[v] = "lockfuture"

\* C25: the Task of a Waker, and the TaskQueue of a Task, never change: a wake
\* through a Waker of Task t, the one of its poll or a clone of it, appends t
\* to the queue of the executor that spawned t and leaves the queues of the
\* other executors alone; every entry of a queue is a Task of that executor.
C25_HandleBound ==
    /\ [](\A e \in Executors : \A i \in 1..Len(queues[e]) : home[queues[e][i]] = e)
    /\ [][\A t \in TaskIds :
            /\ home[t] # "none" => home'[t] = home[t]
            /\ ((handles'[t] < handles[t] \/ comp'[t] < comp[t]) /\ queues' # queues)
                  => queues' = [queues EXCEPT ![home[t]] = Append(@, t)]]_vars

\* only one thread ever ran, on e2, and it has returned; after that the holder
\* of a Waker of a Task of e2 invoked it, while Tasks wait in the queue of e1
C25_Witness ==
    \E t \in SysSpawned : \E w, v \in Workers :
        /\ w # v /\ wpc[w] = "returned" /\ wexec[w] = "e2" /\ wpc[v] = "idle"
        /\ home[t] = "e2" /\ queues["e2"] = <<t>>
        /\ queues["e1"] # <<>>

\* a Task that was destroyed after a poll that returned Pending
Abandoned(t) == arc[t].dropped = 1 /\ last[t] = "Pending"

\* C31: a Task whose poll returns Pending without a wake, of which no Waker
\* is held elsewhere and no entry is queued, is destroyed at the end of that
\* loop body; a destroyed Task is never polled, queued or touched again, so it
\* never returns Ready later; and run() still returns (under FairSpec).
C31_AbandonedDropped ==
    /\ [][(pc = "polled" /\ pc' = "loop" /\ last[task] = "Pending"
            /\ stepWakes = 0 /\ kept[task] = 0 /\ Count(queue, task) = 0) =>
              /\ arc'[task] = [strong |-> 0, dropped |-> 1]
              /\ queue' = queue /\ future' = future]_vars
    /\ [][\A t \in Spawned :
            arc[t].dropped = 1 =>
                /\ adv'[t] = adv[t] /\ done'[t] = done[t] /\ last'[t] = last[t]
                /\ future'[t] = future[t] /\ arc'[t] = arc[t]
                /\ Count(queue', t) = 0]_vars
    /\ (InRun /\ NoForever /\ \E t \in Spawned : Abandoned(t)) ~> (pc = "returned")

\* run() has returned after it polled a computation once, which returned
\* Pending without a wake or a clone: its Task is destroyed and never was Ready
C31_Witness ==
    \E t \in Spawned :
        /\ pc = "returned" /\ Abandoned(t) /\ lapsed[t]
        /\ cloned[t] = 0 /\ adv[t] = 1 /\ done[t] = 0
        /\ Count(pushedHist, t) = 1

\* C32: the TaskQueue exists as long as a Task or a Waker of a Task does, also
\* after the SimpleExecutor was dropped: every entry is in a TaskQueue that
\* exists, and a wake after the drop appends to it.
C32_QueueOutlives ==
    /\ [](\A t \in Spawned :
            /\ (arc[t].dropped = 0 \/ kept[t] > 0 \/ (waker /\ task = t))
                  => QueueStrong >= 1
            /\ kept[t] > 0 => arc[t].dropped = 0)
    /\ [](queue # <<>> => QueueStrong >= 1)
    /\ [][(~executor /\ pushedHist' # pushedHist) =>
              /\ QueueStrong >= 1
              /\ \E t \in Spawned :
                    /\ queue' = Append(queue, t)
                    /\ arc'[t].dropped = 0 /\ arc'[t].strong >= 1]_vars

\* the executor is dropped, and the entry that a cloned Waker pushed is the
\* only share of its Task
C32_Witness ==
    \E t \in Spawned :
        /\ ~executor /\ pc = "returned"
        /\ cloned[t] >= 1 /\ kept[t] = 0
        /\ queue = <<t>> /\ arc[t] = [strong |-> 1, dropped |-> 0]

\* the computation of Task t has so far invoked its Waker at most once per
\* poll and only from inside its poll: no clone of a Waker of t was made, and
\* it is a CountDown, or wakes itself in every poll, or has woken itself at
\* most once in all
OneWakePerStep(t) ==
    /\ cloned[t] = 0
    /\ \/ future[t].kind \in {"countdown", "forever"}
       \/ Count(pushedHist, t) <= 2

\* C33: when every computation invokes its Waker at most once per poll and
\* only from inside its poll, every Task has at most one queue entry, the
\* queue is no longer than the number of Tasks, and no Task whose poll has
\* returned Ready has a queue entry.
C33_SingleEntry ==
    (\A t \in Spawned : OneWakePerStep(t)) =>
        /\ \A t \in Spawned : Count(queue, t) <= 1
        /\ Len(queue) <= nTasks
        /\ \A t \in Spawned : ~(last[t] = "Ready" /\ Count(queue, t) > 0)

\* C34: a Task spawned onto the executor from inside a poll, while run() is
\* executing, is pushed behind every entry the queue holds at that moment
\* (the poll goes on, nothing is advanced by the spawn itself), and run() does
\* not return before it has advanced that Task at least once
C34_NestedSpawn ==
    /\ [][(pc = "polling" /\ nTasks' = nTasks + 1) =>
              /\ queue' = Append(queue, nTasks')
              /\ pc' = "polling" /\ task' = task
              /\ adv' = adv /\ adv[nTasks'] = 0
              /\ arc'[nTasks'] = [strong |-> 1, dropped |-> 0]]_vars
    /\ [](pc = "returned" => \A t \in Spawned : adv[t] >= 1)

\* task 1 woke itself and then spawned task 2 in its first poll; run() polled
\* 1, 1 again, then 2, and returned
C34_Witness ==
    /\ pc = "returned"
    /\ nTasks = 2
    /\ IsPrefix(<<1, 1, 2>>, pushedHist)
    /\ IsPrefix(<<1, 1, 2>>, poppedHist)
    /\ adv[2] >= 1

\* C35: run() is idempotent at quiescence. Every step the caller of run()
\* takes while the queue is empty (entering run() again after it returned,
\* locking the queue, the pop that finds it empty, the return) polls nothing
\* and leaves the queue, every reference count and every computation as they
\* were; and once run() was entered again no CountDown has been polled more
\* often than its count + 1
C35_RunIdempotent ==
    /\ [][(pc \in {"returned", "loop"} /\ queue = <<>>
              /\ (pc' # pc \/ qlock' # qlock)) =>
                /\ adv' = adv /\ done' = done /\ last' = last
                /\ queue' = queue /\ arc' = arc /\ future' = future
                /\ pushedHist' = pushedHist /\ poppedHist' = poppedHist
                /\ pc' \in {"returned", "loop"}]_vars
    /\ [](again => \A t \in Spawned : future[t].kind = "countdown" =>
                       adv[t] <= future[t].count + 1)

\* two CountDowns ran to their end, run() returned, was called again and has
\* returned again: no poll was added, the Tasks stayed destroyed
C35_Witness ==
    /\ again
    /\ pc = "returned"
    /\ queue = <<>>
    /\ nTasks = 2
    /\ \A t \in Spawned :
        /\ future[t].kind = "countdown" /\ future[t].count >= 1
        /\ adv[t] = future[t].count + 1
        /\ done[t] = 1
        /\ arc[t] = [strong |-> 0, dropped |-> 1]
    /\ Len(poppedHist) = Len(pushedHist)

\* C36: pop on an empty queue returns None and leaves the queue as it is; pop
\* on a non-empty queue returns the head and leaves exactly the entries behind
\* it, in their order (one entry fewer, also when the head's Task has other
\* entries); and run()'s pop step changes the queue in just that way
C36_PopFrame ==
    /\ [](LET r == pop(queue) IN
            /\ queue = <<>> => r.res = NoTask /\ r.queue = <<>>
            /\ queue # <<>> =>
                /\ r.res = queue[1]
                /\ Len(r.queue) = Len(queue) - 1
                /\ \A i \in 1..Len(r.queue) : r.queue[i] = queue[i + 1])
    /\ [][(pc = "loop" /\ qlock = "run" /\ qlock' = "free") =>
              IF queue = <<>>
              THEN queue' = <<>> /\ pc' = "returned" /\ poppedHist' = poppedHist
              ELSE /\ task' = queue[1]
                   /\ queue' = SubSeq(queue, 2, Len(queue))
                   /\ poppedHist' = Append(poppedHist, queue[1])]_vars

\* run() popped the head of a queue of three entries whose last two differ:
\* those two are left, in their order
C36_Witness ==
    /\ pc = "polling"
    /\ stepWakes = 0
    /\ Len(queue) = 2
    /\ queue[1] # queue[2]
    /\ Len(pushedHist) >= 3
    /\ pushedHist[Len(pushedHist)] = queue[2]
    /\ pushedHist[Len(pushedHist) - 1] = queue[1]
    /\ poppedHist[Len(poppedHist)] = task

\* a call of CountDown::poll is made in this step: by run(), for a Task whose
\* computation is a CountDown, or by the wrapper that owns one
CountDownPolled ==
    /\ pc = "polling"
    /\ \/ future[task].kind = "countdown" /\ pc' = "polled"
       \/ future[task].kind = "wrapper"
            /\ future'[task].budget # future[task].budget

\* C37: what is left of a CountDown stays within 0..count (no underflow of
\* the u32). Every poll with remaining > 0 takes exactly one off, calls
\* wake_by_ref exactly once (one entry more for its Task) and returns Pending;
\* every poll with remaining = 0 changes nothing, wakes nothing and returns
\* Ready, also when the CountDown was polled at 0 before
C37_CountDownPoll ==
    /\ [](\A t \in Spawned : future[t].kind \in {"countdown", "wrapper"} =>
            future[t].remaining \in 0..future[t].count)
    /\ [][CountDownPolled =>
            IF future[task].remaining > 0
            THEN /\ future'[task].remaining = future[task].remaining - 1
                 /\ queue' = Append(queue, task)
                 /\ pushedHist' = Append(pushedHist, task)
                 /\ stepWakes' = stepWakes + 1
                 /\ last'[task] = "Pending"
            ELSE /\ future'[task].remaining = 0
                 /\ queue' = queue
                 /\ pushedHist' = pushedHist
                 /\ arc' = arc
                 /\ stepWakes' = stepWakes
                 /\ last'[task] = "Ready"]_vars

\* the wrapper has polled its CountDown count + 2 times: the last two polls
\* found 0 left, the latest (with no wake in this step) returned Ready again
C37_Witness ==
    /\ pc = "polled"
    /\ future[task].kind = "wrapper"
    /\ future[task].count >= 1
    /\ future[task].budget = 0
    /\ future[task].remaining = 0
    /\ stepWakes = 0
    /\ last[task] = "Ready"
    /\ Count(pushedHist, task) = future[task].count + 1

============================================================================
